---- MODULE Spec2Model ----
(***************************************************************************)
(* Gmail Fast Reader: the orchestration engine of the add-on.              *)
(*                                                                         *)
(* State: the user properties (PropertiesService), the installed triggers  *)
(* (ScriptApp), the accumulator file on Drive, the mails sent, the wall    *)
(* clock, and the position of the two trigger-driven invocations that can  *)
(* be executing (the hourly runDispatcher trigger and the one-off          *)
(* processEmailsChunkedStep trigger).  UI handlers are short and run as    *)
(* one step; the two trigger handlers are cut at their long external call  *)
(* (mail fetch and LLM batches), where other invocations interleave.       *)
(* All times are epoch milliseconds, as Date.getTime() gives them; an ISO  *)
(* string written by toISOString() and read back by new Date() is the same *)
(* millisecond count, so stored timestamps are kept as integers.           *)
(***************************************************************************)
EXTENDS Integers, Sequences, FiniteSets, TLC

(* ---------------- program constants ---------------- *)

MINUTE_MS == 60000

HOUR_MS == 60 * MINUTE_MS

DAY_MS == 24 * HOUR_MS

PROCESSING_TIMEOUT_MS == 10 * 60 * 1000

CHUNK_SIZE_MS == 2 * 24 * 60 * 60 * 1000

KICKOFF_DELAY_MS == 60 * 1000

DISPATCHER_INTERVAL_MS == 60 * 60 * 1000

PASSIVE_INTERVAL_MS == 60 * 60 * 1000

WINDOW_START_MIN == 1260

WINDOW_END_MIN == 1440

(* ---------------- bounds of the model ---------------- *)

\* number of clock advances in one behaviour
MaxTicks == 1

\* number of user-initiated starts in one behaviour
MaxStarts == 1

\* the clock at construction: 10 days after the epoch, 00:00 UTC
StartOfTime == 10 * DAY_MS

\* clock advances offered in the orchestration specification
Deltas == {10 * MINUTE_MS, 90 * MINUTE_MS}

\* clock advances in one behaviour of the digest specification
MaxDigestTicks == 2

\* clock advances offered in the digest specification
DigestDeltas == {MINUTE_MS, 60 * MINUTE_MS, 24 * 60 * MINUTE_MS}

\* offsets from UTC of the configured time zone: America/New_York, Europe/Paris
TimeZones == {0 - 5 * HOUR_MS, HOUR_MS}

\* threads in the mailbox
MaxThreads == 2

\* messages in the mailbox
MaxMessages == 3

\* hours over which passive passes follow each other
MaxFetchTicks == 2

\* hours the clock runs on while locks wait to be released
MaxLiveTicks == 2

\* symbolic ranges a user requests in the orchestration specification
TimeRanges == {"1day"}

\* findings one pass or chunk can produce
NoFindings == [mustDo |-> <<>>, mustKnow |-> <<>>]

FindingSets == {NoFindings,
                [mustDo |-> <<"d">>, mustKnow |-> <<>>],
                [mustDo |-> <<>>, mustKnow |-> <<"k">>]}

\* findings one chunk of an active run can produce
ChunkFindingSets == {NoFindings, [mustDo |-> <<"d">>, mustKnow |-> <<>>]}

(* ---------------- values ---------------- *)

\* a property that is not set (getProperty returns null)
Absent == -1

NoLock == [type |-> "none", timestamp |-> Absent]

Invocations == {"dispatcher", "oneoff"}

IdleInv == [pc |-> "idle", chunkIndex |-> Absent, totalChunks |-> Absent,
            overallStart |-> Absent, overallEnd |-> Absent,
            accumulated |-> NoFindings, rangeStart |-> Absent, rangeEnd |-> Absent,
            results |-> NoFindings]

EmptyAccumulated == [mustDo |-> <<>>, mustKnow |-> <<>>, firstDate |-> Absent, lastDate |-> Absent]

\* the threads of the mailbox
ThreadIds == 1..MaxThreads

\* the specifications that draw the outcome of the mail fetch from
\* FetchOutcomes hold no messages; the id of the message a pass tracks is then
SomeMessage == 1

NoMessages == << >>

\* a thread in the inbox with no star, no user label and no IMPORTANT flag
PlainThread == [inInbox |-> TRUE, starred |-> FALSE, userLabelled |-> FALSE,
                important |-> FALSE]

VARIABLES
  props,      \* PropertiesService.getUserProperties()
  triggers,   \* ScriptApp.getProjectTriggers(), counted per handler function
  drive,      \* content of the accumulator file
  outbox,     \* mails handed to GmailApp.sendEmail, counted per kind
  digests,    \* the sendEmail calls for the daily summary: local date, and
              \* whether GmailApp accepted the mail
  now,        \* wall clock, epoch ms
  tzOffset,   \* offset of config.timeZone from UTC, ms
  ticks,      \* clock advances so far
  starts,     \* active starts so far
  inv,        \* the executing trigger invocations and their local variables
  mailbox,    \* the user's Gmail threads: flags and whether they are in the inbox
  messages    \* the user's Gmail messages: thread, date, and the passive
              \* passes that submitted them for analysis

vars == <<props, triggers, drive, outbox, digests, now, tzOffset, ticks, starts, inv, mailbox,
          messages>>

(* ---------------- lock and state helpers (Code.js) ---------------- *)

\* lock(workflowType)
lock(p, workflowType, t) ==
  [p EXCEPT !.processingLock = [type |-> workflowType, timestamp |-> t]]

\* unlock()
unlock(p) == [p EXCEPT !.processingLock = NoLock]

\* Math.floor(triggerDelayMs * 0.3) + 600 * 1000
calculateExpectedStartBuffer(triggerDelayMs) ==
  ((triggerDelayMs * 3) \div 10) + 600 * 1000

startProcessingState(p, timeRange, expectedStartAt, t) ==
  [p EXCEPT !.processingStatus = "running",
            !.expectedChunkStartTime = expectedStartAt]

markChunkStarting(p, t) == [p EXCEPT !.chunkStartTime = t]

markChunkEnded(p) == [p EXCEPT !.chunkStartTime = Absent]

setExpectedNextChunkStart(p, triggerDelayMs, t) ==
  [p EXCEPT !.expectedChunkStartTime =
              t + triggerDelayMs + calculateExpectedStartBuffer(triggerDelayMs)]

cleanupProcessingState(p) ==
  [p EXCEPT !.processingStatus = "absent"]

cleanupChunkState(p) ==
  [p EXCEPT !.chunkCurrentStart = Absent,
            !.chunkEnd = Absent,
            !.chunkIndex = Absent,
            !.chunkTotalChunks = Absent,
            !.accumulatedResults = <<>>,
            !.chunkStartTime = Absent]

cleanupChunkTiming(p) == [p EXCEPT !.chunkStartTime = Absent]

releaseProcessingState(p) ==
  unlock(cleanupChunkTiming(cleanupChunkState(cleanupProcessingState(p))))

failProcessing(p) ==
  unlock(cleanupChunkTiming([p EXCEPT !.processingStatus = "error"]))

\* a call of one of the send...Email functions; outbox counts the calls
send(o, kind) == [o EXCEPT ![kind] = @ + 1]

(* ---------------- triggers ---------------- *)

isDispatcherTriggerInstalled(tr) == tr.runDispatcher > 0

ensureDispatcherScheduled(tr) ==
  IF tr.runDispatcher > 0 THEN tr ELSE [tr EXCEPT !.runDispatcher = 1]

deleteDispatcherTriggers(tr) == [tr EXCEPT !.runDispatcher = 0]

(* ---------------- timeout ---------------- *)

\* a check that forgets the expected start of a chunk that never began
TimeoutDueChunkOnly(p, t) ==
  /\ p.processingStatus = "running"
  /\ p.chunkStartTime # Absent
  /\ t - p.chunkStartTime > PROCESSING_TIMEOUT_MS

\* the condition under which checkAndHandleTimeout(now) transitions to timeout
TimeoutDue(p, t) ==
  /\ p.processingStatus = "running"
  /\ IF p.chunkStartTime # Absent
       THEN t - p.chunkStartTime > PROCESSING_TIMEOUT_MS
       ELSE /\ p.expectedChunkStartTime # Absent
            /\ t > p.expectedChunkStartTime

\* checkAndHandleTimeout(now): the properties after the call
checkAndHandleTimeout(p, t) ==
  IF ~TimeoutDue(p, t) THEN p
  ELSE IF p.chunkStartTime # Absent
    THEN unlock(cleanupChunkTiming([p EXCEPT !.processingStatus = "timeout"]))
    ELSE unlock([p EXCEPT !.processingStatus = "timeout"])

\* the mails after the call (a raise of the timeout mail is swallowed)
checkAndHandleTimeoutMail(p, t, o) ==
  IF TimeoutDue(p, t) THEN send(o, "timeout") ELSE o

\* checkLock(): the lock data always parses here, so it only delegates
checkLock(p, t) == checkAndHandleTimeout(p, t)

checkLockLocked(p) == p.processingLock # NoLock

\* isProcessingRunning(): the value returned
isProcessingRunning(p, t) ==
  /\ p.processingStatus = "running"
  /\ ~TimeoutDue(p, t)

\* isProcessingRunning(): the properties after the call
isProcessingRunningProps(p, t) ==
  IF p.processingStatus # "running" THEN p ELSE checkAndHandleTimeout(p, t)

(* ---------------- construction ---------------- *)

InitProps ==
  [processingLock |-> NoLock,
   processingStatus |-> "absent",
   chunkStartTime |-> Absent,
   expectedChunkStartTime |-> Absent,
   chunkCurrentStart |-> Absent,
   chunkEnd |-> Absent,
   chunkIndex |-> Absent,
   chunkTotalChunks |-> Absent,
   accumulatedResults |-> <<>>,
   passiveLastRunIso |-> Absent,
   passiveLastProcessedTimestamp |-> Absent,
   passiveLastProcessedMessageId |-> Absent,
   passiveLastSummaryDate |-> Absent,
   openaiApiKey |-> TRUE]

InitCommon ==
  /\ props = InitProps
  /\ triggers = [runDispatcher |-> 1, processEmailsChunkedStep |-> 0]
  /\ drive = EmptyAccumulated
  /\ outbox = [complete |-> 0, error |-> 0, timeout |-> 0, passiveError |-> 0]
  /\ digests = <<>>
  /\ ticks = 0
  /\ starts = 0
  /\ inv = [i \in Invocations |-> IdleInv]

Init ==
  /\ InitCommon
  /\ mailbox = [t \in ThreadIds |-> PlainThread]
  /\ messages = NoMessages
  /\ now = StartOfTime
  /\ tzOffset = HOUR_MS

(* ---------------- the clock ---------------- *)

Tick(d) ==
  /\ now' = now + d
  /\ ticks' = ticks + 1
  /\ UNCHANGED <<props, triggers, drive, outbox, digests, tzOffset, starts, inv, mailbox, messages>>

TickClock == \E d \in Deltas : ticks < MaxTicks /\ Tick(d)

TickDigest == \E d \in DigestDeltas : ticks < MaxDigestTicks /\ Tick(d)

(* ---------------- UI entry points ---------------- *)

\* onHomepageTrigger: ensure the dispatcher, then buildMainCard, which asks
\* isProcessingRunning()
onHomepageTrigger ==
  /\ triggers' = ensureDispatcherScheduled(triggers)
  /\ props' = isProcessingRunningProps(props, now)
  /\ outbox' = IF props.processingStatus = "running"
                 THEN checkAndHandleTimeoutMail(props, now, outbox)
                 ELSE outbox
  /\ UNCHANGED <<drive, digests, now, tzOffset, ticks, starts, inv, mailbox, messages>>

(* ---------------- active workflow: start ---------------- *)

RangeMs(timeRange) ==
  CASE timeRange = "6hours" -> 6 * 60 * 60 * 1000
    [] timeRange = "12hours" -> 12 * 60 * 60 * 1000
    [] timeRange = "1day" -> 24 * 60 * 60 * 1000
    [] timeRange = "2days" -> 2 * 24 * 60 * 60 * 1000
    [] timeRange = "7days" -> 7 * 24 * 60 * 60 * 1000
    [] OTHER -> 24 * 60 * 60 * 1000

\* calculateDateRange(timeRange)
calculateDateRange(timeRange, t) == [start |-> t - RangeMs(timeRange), end |-> t]

\* Math.ceil(a / b) for a >= 0, b > 0
Ceil(a, b) == (a + b - 1) \div b

Max(a, b) == IF a >= b THEN a ELSE b

Min(a, b) == IF a <= b THEN a ELSE b

\* a chunk count that rounds down
TotalChunksRoundedDown(start, end) == Max(1, (end - start) \div CHUNK_SIZE_MS)

\* Math.max(1, Math.ceil((end - start) / CHUNK_SIZE_MS))
TotalChunks(start, end) == Max(1, Ceil(end - start, CHUNK_SIZE_MS))

\* the steps of startBackgroundEmailProcessing that can raise
StartFailures == {"none", "state", "chunkState", "deleteTrigger", "createTrigger"}

\* startBackgroundEmailProcessing(timeRange): properties when it returns
startProps(p, timeRange, t, fail) ==
  LET locked == lock(p, "active", t)
      expectedAt == t + calculateExpectedStartBuffer(KICKOFF_DELAY_MS)
      started == startProcessingState(locked, timeRange, expectedAt, t)
      range == calculateDateRange(timeRange, t)
      chunked == [started EXCEPT
                    !.chunkCurrentStart = range.start,
                    !.chunkEnd = range.end,
                    !.chunkIndex = 0,
                    !.chunkTotalChunks = TotalChunks(range.start, range.end),
                    !.accumulatedResults = <<NoFindings>>]
  IN CASE fail = "state" -> unlock(locked)
       [] fail = "chunkState" -> unlock(started)
       [] fail \in {"deleteTrigger", "createTrigger"} -> failProcessing(chunked)
       [] OTHER -> chunked

\* a kickoff that keeps the hourly dispatcher beside the one-off trigger
startTriggersKeepDispatcher(tr, fail) ==
  CASE fail \in {"state", "chunkState"} -> tr
    [] fail \in {"deleteTrigger", "createTrigger"} -> ensureDispatcherScheduled(tr)
    [] OTHER -> [ensureDispatcherScheduled(tr) EXCEPT !.processEmailsChunkedStep = @ + 1]

\* startBackgroundEmailProcessing(timeRange): triggers when it returns
startTriggers(tr, fail) ==
  CASE fail \in {"state", "chunkState"} -> tr
    [] fail = "deleteTrigger" -> ensureDispatcherScheduled(tr)
    [] fail = "createTrigger" -> ensureDispatcherScheduled(deleteDispatcherTriggers(tr))
    [] OTHER -> [deleteDispatcherTriggers(tr) EXCEPT !.processEmailsChunkedStep = @ + 1]

\* startBackgroundEmailProcessing(timeRange): mails when it returns
startMail(o, fail) ==
  IF fail \in {"deleteTrigger", "createTrigger"} THEN send(o, "error") ELSE o

\* handleScanEmails(e): the card returned
handleScanEmailsCard(p, t) ==
  IF isProcessingRunning(p, t)
    THEN "error: Another workflow is already running"
    ELSE "progress"

\* handleScanEmails(e): refuse when isProcessingRunning(), else start
handleScanEmails(timeRange, fail) ==
  /\ starts < MaxStarts
  /\ starts' = starts + 1
  /\ LET checked == isProcessingRunningProps(props, now)
         checkedMail == IF props.processingStatus = "running"
                          THEN checkAndHandleTimeoutMail(props, now, outbox)
                          ELSE outbox
     IN IF isProcessingRunning(props, now)
          THEN /\ props' = checked
               /\ outbox' = checkedMail
               /\ triggers' = triggers
          ELSE /\ props' = startProps(checked, timeRange, now, fail)
               /\ triggers' = startTriggers(triggers, fail)
               /\ outbox' = startMail(checkedMail, fail)
  /\ UNCHANGED <<drive, digests, now, tzOffset, ticks, inv, mailbox, messages>>

ScanEmails ==
  \E timeRange \in TimeRanges, fail \in StartFailures :
    handleScanEmails(timeRange, fail)

\* checkProcessingStatus(): properties when it returns
checkProcessingStatusProps(p, t) ==
  CASE p.processingStatus = "absent" -> p
    [] p.processingStatus = "running" ->
         IF TimeoutDue(p, t)
           THEN cleanupChunkTiming(cleanupProcessingState(checkAndHandleTimeout(p, t)))
           ELSE p
    [] OTHER ->
         cleanupChunkTiming(cleanupProcessingState(p))

checkProcessingStatus ==
  /\ props' = checkProcessingStatusProps(props, now)
  /\ outbox' = checkAndHandleTimeoutMail(props, now, outbox)
  /\ UNCHANGED <<triggers, drive, digests, now, tzOffset, ticks, starts, inv, mailbox, messages>>

\* buildActiveWorkflowCard(): the scan card asks isProcessingRunning()
buildActiveWorkflowCard ==
  /\ props' = isProcessingRunningProps(props, now)
  /\ outbox' = IF props.processingStatus = "running"
                 THEN checkAndHandleTimeoutMail(props, now, outbox)
                 ELSE outbox
  /\ UNCHANGED <<triggers, drive, digests, now, tzOffset, ticks, starts, inv, mailbox, messages>>

\* handleEmergencyReset -> resetAddonState(): delete every trigger, release
\* the processing state, reinstall the dispatcher
handleEmergencyReset ==
  /\ triggers' = ensureDispatcherScheduled(
                   [runDispatcher |-> 0, processEmailsChunkedStep |-> 0])
  /\ props' = releaseProcessingState(props)
  /\ UNCHANGED <<drive, outbox, digests, now, tzOffset, ticks, starts, inv, mailbox, messages>>

(* ---------------- active workflow: chunk step ---------------- *)

HasFindings(r) == Len(r.mustDo) > 0 \/ Len(r.mustKnow) > 0

\* a.mustDo.concat(b.mustDo), a.mustKnow.concat(b.mustKnow)
Concat(a, b) == [mustDo |-> a.mustDo \o b.mustDo, mustKnow |-> a.mustKnow \o b.mustKnow]

World(p, tr, o) == [props |-> p, triggers |-> tr, outbox |-> o, raised |-> FALSE]

\* the catch block of processEmailsChunkedStep; when the error mail raises,
\* the raise leaves the handler before unlock() and ensureDispatcherScheduled()
stepCatch(w, errorOk) ==
  LET failed == cleanupChunkTiming([w.props EXCEPT !.processingStatus = "error"])
  IN IF errorOk
       THEN [props |-> unlock(failed),
             triggers |-> ensureDispatcherScheduled(w.triggers),
             outbox |-> send(w.outbox, "error"),
             raised |-> FALSE]
       ELSE [props |-> failed, triggers |-> w.triggers, outbox |-> w.outbox,
             raised |-> TRUE]

\* a finalize that mails the completion whatever was found
finalizeChunkedProcessingAlwaysMails(w, accumulated, completeOk, errorOk) ==
  LET completed == cleanupChunkState([w.props EXCEPT !.processingStatus = "completed"])
      failed == cleanupChunkTiming([completed EXCEPT !.processingStatus = "error"])
      tr == ensureDispatcherScheduled(w.triggers)
  IN IF completeOk
       THEN [props |-> unlock(completed), triggers |-> tr,
             outbox |-> send(w.outbox, "complete"), raised |-> FALSE]
     ELSE IF errorOk
       THEN [props |-> unlock(failed), triggers |-> tr,
             outbox |-> send(w.outbox, "error"), raised |-> FALSE]
     ELSE [props |-> unlock(failed), triggers |-> tr, outbox |-> w.outbox,
           raised |-> TRUE]

\* finalizeChunkedProcessing(accumulated)
finalizeChunkedProcessing(w, accumulated, completeOk, errorOk) ==
  LET completed == cleanupChunkState([w.props EXCEPT !.processingStatus = "completed"])
      failed == cleanupChunkTiming([completed EXCEPT !.processingStatus = "error"])
      tr == ensureDispatcherScheduled(w.triggers)
  IN IF ~HasFindings(accumulated)
       THEN [props |-> unlock(completed), triggers |-> tr, outbox |-> w.outbox,
             raised |-> FALSE]
     ELSE IF completeOk
       THEN [props |-> unlock(completed), triggers |-> tr,
             outbox |-> send(w.outbox, "complete"), raised |-> FALSE]
     ELSE IF errorOk
       THEN [props |-> unlock(failed), triggers |-> tr,
             outbox |-> send(w.outbox, "error"), raised |-> FALSE]
     ELSE [props |-> unlock(failed), triggers |-> tr, outbox |-> w.outbox,
           raised |-> TRUE]

\* finalize as called inside the try block of processEmailsChunkedStep
stepFinalize(w, accumulated, completeOk, errorOk) ==
  LET f == finalizeChunkedProcessing(w, accumulated, completeOk, errorOk)
  IN IF f.raised THEN stepCatch(f, errorOk) ELSE f

\* parseInt(properties.getProperty(key) || dflt)
IntOr(v, dflt) == IF v = Absent THEN dflt ELSE v

\* processEmailsChunkedStep() up to the mail fetch: the world and the
\* invocation's local variables
stepEnter(w, t, completeOk, errorOk) ==
  LET tr == ensureDispatcherScheduled(w.triggers)
      p == markChunkStarting(w.props, t)
      w1 == [w EXCEPT !.props = p, !.triggers = tr]
      chunkIndex == IntOr(p.chunkIndex, 0)
      totalChunks == IntOr(p.chunkTotalChunks, 1)
      accumulated == IF p.accumulatedResults = <<>> THEN NoFindings
                     ELSE p.accumulatedResults[1]
      currentStart == p.chunkCurrentStart + chunkIndex * CHUNK_SIZE_MS
  IN IF ~p.openaiApiKey \/ p.chunkCurrentStart = Absent \/ p.chunkEnd = Absent
       THEN [world |-> stepCatch(w1, errorOk), local |-> IdleInv]
     ELSE IF currentStart >= p.chunkEnd
       THEN [world |-> stepFinalize(w1, accumulated, completeOk, errorOk),
             local |-> IdleInv]
     ELSE [world |-> w1,
           local |-> [IdleInv EXCEPT !.pc = "step",
                                     !.chunkIndex = chunkIndex,
                                     !.totalChunks = totalChunks,
                                     !.overallStart = p.chunkCurrentStart,
                                     !.overallEnd = p.chunkEnd,
                                     !.accumulated = accumulated]]

\* "Advance to next chunk": the properties as stored by the step before it
\* decides whether to finalize
stepAdvance(p, l, chunkResults) ==
  [p EXCEPT !.accumulatedResults = <<Concat(l.accumulated, chunkResults)>>,
            !.chunkIndex = l.chunkIndex + 1]

\* a step that never finalizes after its chunk
stepWorkNeverFinalizes(w, l, t, fetchOk, chunkResults, completeOk, errorOk) ==
  LET advanced == stepAdvance(w.props, l, chunkResults)
  IN IF ~fetchOk THEN stepCatch(w, errorOk)
     ELSE [w EXCEPT
             !.props = setExpectedNextChunkStart(markChunkEnded(advanced),
                                                 DISPATCHER_INTERVAL_MS, t),
             !.triggers = ensureDispatcherScheduled(w.triggers)]

\* processEmailsChunkedStep() from the mail fetch on; fetchOk is whether the
\* fetch and the LLM batches return, chunkResults what they return
stepWork(w, l, t, fetchOk, chunkResults, completeOk, errorOk) ==
  LET accumulated == Concat(l.accumulated, chunkResults)
      nextChunkIndex == l.chunkIndex + 1
      advanced == stepAdvance(w.props, l, chunkResults)
      w1 == [w EXCEPT !.props = advanced]
  IN IF ~fetchOk THEN stepCatch(w, errorOk)
     ELSE IF \/ l.overallStart + nextChunkIndex * CHUNK_SIZE_MS >= l.overallEnd
             \/ nextChunkIndex >= l.totalChunks
       THEN stepFinalize(w1, accumulated, completeOk, errorOk)
     ELSE [w1 EXCEPT
             !.props = setExpectedNextChunkStart(markChunkEnded(advanced),
                                                 DISPATCHER_INTERVAL_MS, t),
             !.triggers = ensureDispatcherScheduled(w.triggers)]

(* ---------------- passive workflow ---------------- *)

PASSIVE_SAFETY_BUFFER_MS == 30 * 60 * 1000

PASSIVE_LOOKBACK_MS == 24 * 60 * 60 * 1000

NoRange == [start |-> Absent, end |-> Absent]

\* a range that always reaches back the full 24 hours, whatever was processed
calculatePassiveWorkflowDateRangeFullLookback(p, t) ==
  LET maxLookback == t - PASSIVE_LOOKBACK_MS
  IN IF maxLookback >= t THEN NoRange ELSE [start |-> maxLookback, end |-> t]

\* calculatePassiveWorkflowDateRange(); NoRange stands for null
calculatePassiveWorkflowDateRange(p, t) ==
  LET maxLookback == t - PASSIVE_LOOKBACK_MS
      first == IF p.passiveLastProcessedTimestamp # Absent
                 THEN p.passiveLastProcessedTimestamp + PASSIVE_SAFETY_BUFFER_MS
                 ELSE maxLookback
      startDate == IF first < maxLookback THEN maxLookback ELSE first
  IN IF startDate >= t THEN NoRange ELSE [start |-> startDate, end |-> t]

\* the finally block of runPassiveWorkflow
passiveFinally(p) == unlock(markChunkEnded(p))

\* runPassiveWorkflow() up to the mail fetch
passiveEnter(w, t) ==
  LET checked == checkLock(w.props, t)
      o == checkAndHandleTimeoutMail(w.props, t, w.outbox)
      locked == lock(checked, "passive", t)
      dateRange == calculatePassiveWorkflowDateRange(locked, t)
      done(p) == [world |-> [w EXCEPT !.props = passiveFinally(p), !.outbox = o],
                  local |-> IdleInv]
  IN IF checkLockLocked(w.props) THEN done(checked)
     ELSE IF ~locked.openaiApiKey THEN done(unlock(locked))
     ELSE IF dateRange = NoRange THEN done(unlock(locked))
     ELSE [world |-> [w EXCEPT !.props = markChunkStarting(locked, t), !.outbox = o],
           local |-> [IdleInv EXCEPT !.pc = "passive",
                                     !.rangeStart = dateRange.start,
                                     !.rangeEnd = dateRange.end]]

\* mergeAccumulatedResults(accumulated, newResults, start, end)
mergeAccumulatedResults(accumulated, newResults, processingStartDate, processingEndDate) ==
  [mustDo |-> accumulated.mustDo \o newResults.mustDo,
   mustKnow |-> accumulated.mustKnow \o newResults.mustKnow,
   firstDate |-> IF accumulated.firstDate # Absent THEN accumulated.firstDate
                 ELSE processingStartDate,
   lastDate |-> processingEndDate]

\* the outcomes of the mail fetch and the LLM batches of a passive pass
FetchOutcomes == {"raise", "none", "threads"}

\* what Drive does for the load and the save of a pass with findings: both
\* work, the read fails (loadAccumulatedResults swallows the error and returns
\* the empty structure), or the write fails (saveAccumulatedResults raises)
DriveOutcomes == {"ok", "loadFails", "saveFails"}

\* loadAccumulatedResults()
loadAccumulatedResults(d, driveOutcome) ==
  IF driveOutcome = "loadFails" THEN EmptyAccumulated ELSE d

\* the pass reaches its catch block before sendDailySummaryIfNeeded
passiveRaises(fetched, results, driveOutcome) ==
  \/ fetched = "raise"
  \/ fetched = "threads" /\ HasFindings(results) /\ driveOutcome = "saveFails"

\* runPassiveWorkflow() from the mail fetch up to sendDailySummaryIfNeeded:
\* the properties
passiveWorkProps(p, l, fetched, results, msgDate, msgId, driveOutcome) ==
  LET tracked == IF fetched = "threads" /\ HasFindings(results)
                   THEN [p EXCEPT !.passiveLastProcessedTimestamp = msgDate,
                                  !.passiveLastProcessedMessageId = msgId]
                   ELSE p
  IN CASE passiveRaises(fetched, results, driveOutcome) -> passiveFinally(tracked)
       [] fetched = "none" -> passiveFinally(unlock(p))
       [] OTHER -> tracked

\* ... and the accumulator file
passiveWorkDrive(d, l, fetched, results, driveOutcome) ==
  IF fetched = "threads" /\ HasFindings(results) /\ driveOutcome # "saveFails"
    THEN mergeAccumulatedResults(loadAccumulatedResults(d, driveOutcome), results,
                                 l.rangeStart, l.rangeEnd)
    ELSE d

(* ---------------- daily digest ---------------- *)

\* Utilities.formatDate(now, tz, 'HH:mm'): the pair (HH, mm)
FormatHHmm(t, tz) ==
  LET local == t + tz
  IN <<(local % DAY_MS) \div HOUR_MS, (local % HOUR_MS) \div MINUTE_MS>>

\* Utilities.formatDate(now, tz, 'yyyy-MM-dd'), as the number of the local day
getCurrentDateString(t, tz) == (t + tz) \div DAY_MS

\* a window that opens only after 21:00
isWithinTimeWindowAfterNine(t, tz) ==
  LET parts == FormatHHmm(t, tz)
      timeInMinutes == parts[1] * 60 + parts[2]
  IN timeInMinutes > WINDOW_START_MIN /\ timeInMinutes < WINDOW_END_MIN

isWithinTimeWindow(t, tz) ==
  LET parts == FormatHHmm(t, tz)
      timeInMinutes == parts[1] * 60 + parts[2]
  IN timeInMinutes >= WINDOW_START_MIN /\ timeInMinutes < WINDOW_END_MIN

hasSentSummaryToday(p, t, tz) ==
  /\ p.passiveLastSummaryDate # Absent
  /\ p.passiveLastSummaryDate = getCurrentDateString(t, tz)

shouldSendDailySummary(p, t, tz) ==
  /\ isWithinTimeWindow(t, tz)
  /\ ~hasSentSummaryToday(p, t, tz)

\* sendDailySummaryIfNeeded reaches GmailApp.sendEmail when the file is read
digestAttempted(p, d, t, tz) ==
  /\ shouldSendDailySummary(p, t, tz)
  /\ HasFindings(d)

\* sendDailySummaryIfNeeded calls GmailApp.sendEmail
digestReachesSend(p, d, t, tz, outcome) ==
  /\ shouldSendDailySummary(p, t, tz)
  /\ HasFindings(loadAccumulatedResults(d, outcome))

\* what can happen inside the window: everything returns, the read of the
\* accumulator file fails (loadAccumulatedResults returns the empty structure),
\* the send raises, or clearAccumulatedResults raises with the file in place
DigestOutcomes == {"ok", "loadFails", "sendRaises", "clearRaises"}

setLastSummaryDate(p, dateString) == [p EXCEPT !.passiveLastSummaryDate = dateString]

\* sendDailySummaryIfNeeded(config): the properties
digestProps(p, d, t, tz, outcome) ==
  IF digestAttempted(p, d, t, tz) /\ outcome = "ok"
    THEN setLastSummaryDate(p, getCurrentDateString(t, tz))
    ELSE p

\* a digest that trashes the accumulator file before the send is known to
\* have gone through
digestDriveClearsFirst(p, d, t, tz, outcome) ==
  IF digestAttempted(p, d, t, tz) THEN EmptyAccumulated ELSE d

\* ... the accumulator file (clearAccumulatedResults trashes it)
digestDrive(p, d, t, tz, outcome) ==
  IF digestAttempted(p, d, t, tz) /\ outcome = "ok" THEN EmptyAccumulated ELSE d

\* ... and the sendEmail calls for the daily summary
digestSent(p, d, t, tz, outcome, sent) ==
  IF digestReachesSend(p, d, t, tz, outcome)
    THEN Append(sent, [date |-> getCurrentDateString(t, tz),
                       delivered |-> outcome # "sendRaises"])
    ELSE sent

(* ---------------- trigger invocations ---------------- *)

\* runDispatcher() up to the long call of the workflow it enters
runDispatcher(completeOk, errorOk) ==
  /\ triggers.runDispatcher > 0
  /\ inv["dispatcher"].pc = "idle"
  /\ LET w == World(props, triggers, outbox)
         timedOut == [w EXCEPT !.props = checkAndHandleTimeout(props, now),
                               !.outbox = checkAndHandleTimeoutMail(props, now, outbox),
                               !.triggers = ensureDispatcherScheduled(triggers)]
         locked == IF checkLockLocked(props) THEN props ELSE lock(props, "active", now)
         step == stepEnter([w EXCEPT !.props = locked], now, completeOk, errorOk)
         shouldRun == \/ props.passiveLastRunIso = Absent
                      \/ now - props.passiveLastRunIso >= PASSIVE_INTERVAL_MS
         passive == passiveEnter(
                      [w EXCEPT !.props = [props EXCEPT !.passiveLastRunIso = now]], now)
         r == IF TimeoutDue(props, now) THEN [world |-> timedOut, local |-> IdleInv]
              ELSE IF props.processingStatus = "running" THEN step
              ELSE IF props.openaiApiKey /\ shouldRun THEN passive
              ELSE [world |-> w, local |-> IdleInv]
     IN /\ props' = r.world.props
        /\ triggers' = r.world.triggers
        /\ outbox' = r.world.outbox
        /\ inv' = [inv EXCEPT !["dispatcher"] = r.local]
  /\ UNCHANGED <<drive, digests, now, tzOffset, ticks, starts, mailbox, messages>>

DispatcherFires == \E completeOk, errorOk \in BOOLEAN : runDispatcher(completeOk, errorOk)

\* the one-off trigger created by the start fires processEmailsChunkedStep
processEmailsChunkedStep(completeOk, errorOk) ==
  /\ triggers.processEmailsChunkedStep > 0
  /\ inv["oneoff"].pc = "idle"
  /\ LET fired == [triggers EXCEPT !.processEmailsChunkedStep = @ - 1]
         r == stepEnter(World(props, fired, outbox), now, completeOk, errorOk)
     IN /\ props' = r.world.props
        /\ triggers' = r.world.triggers
        /\ outbox' = r.world.outbox
        /\ inv' = [inv EXCEPT !["oneoff"] = r.local]
  /\ UNCHANGED <<drive, digests, now, tzOffset, ticks, starts, mailbox, messages>>

OneOffFires == \E completeOk, errorOk \in BOOLEAN : processEmailsChunkedStep(completeOk, errorOk)

\* the rest of a chunk step, in either invocation
StepWork(i, fetchOk, chunkResults, completeOk, errorOk) ==
  /\ inv[i].pc = "step"
  /\ LET r == stepWork(World(props, triggers, outbox), inv[i], now,
                       fetchOk, chunkResults, completeOk, errorOk)
     IN /\ props' = r.props
        /\ triggers' = r.triggers
        /\ outbox' = r.outbox
  /\ inv' = [inv EXCEPT ![i] = IdleInv]
  /\ UNCHANGED <<drive, digests, now, tzOffset, ticks, starts, mailbox, messages>>

ChunkWork ==
  \E i \in Invocations, fetchOk, completeOk, errorOk \in BOOLEAN, r \in ChunkFindingSets :
    StepWork(i, fetchOk, r, completeOk, errorOk)

\* the mail fetch, the batches and the merge of a passive pass
PassiveWork(fetched, results, msgDate, msgId, driveOutcome) ==
  LET l == inv["dispatcher"]
      raises == passiveRaises(fetched, results, driveOutcome)
  IN /\ l.pc = "passive"
     /\ props' = passiveWorkProps(props, l, fetched, results, msgDate, msgId, driveOutcome)
     /\ drive' = passiveWorkDrive(drive, l, fetched, results, driveOutcome)
     /\ outbox' = IF raises THEN send(outbox, "passiveError") ELSE outbox
     /\ inv' = [inv EXCEPT !["dispatcher"] =
                  IF fetched = "threads" /\ ~raises
                    THEN [l EXCEPT !.pc = "digest"] ELSE IdleInv]
     /\ UNCHANGED <<triggers, digests, now, tzOffset, ticks, starts, mailbox>>

\* a pass whose mail holds nothing of interest
PassiveFetch ==
  \E fetched \in FetchOutcomes :
    /\ PassiveWork(fetched, NoFindings, inv["dispatcher"].rangeEnd, SomeMessage, "ok")
    /\ UNCHANGED messages

\* a pass over any mail; msgDate is the date of emailThreads[0].emails[0]
PassiveFetchFindings ==
  \E fetched \in FetchOutcomes, results \in FindingSets, driveOutcome \in DriveOutcomes :
    \E msgDate \in {inv["dispatcher"].rangeStart, inv["dispatcher"].rangeEnd} :
      /\ PassiveWork(fetched, results, msgDate, SomeMessage, driveOutcome)
      /\ UNCHANGED messages

\* sendDailySummaryIfNeeded(config) and the finally block of the pass
PassiveFinish(outcome) ==
  /\ inv["dispatcher"].pc = "digest"
  /\ props' = passiveFinally(digestProps(props, drive, now, tzOffset, outcome))
  /\ drive' = digestDrive(props, drive, now, tzOffset, outcome)
  /\ digests' = digestSent(props, drive, now, tzOffset, outcome, digests)
  /\ inv' = [inv EXCEPT !["dispatcher"] = IdleInv]
  /\ UNCHANGED <<triggers, outbox, now, tzOffset, ticks, starts, mailbox, messages>>

PassiveDigest == \E outcome \in DigestOutcomes : PassiveFinish(outcome)

\* the host ends an execution that runs past its time limit: nothing of the
\* handler runs any more, not even its catch and finally blocks
ExecutionKilled(i) ==
  /\ inv[i].pc # "idle"
  /\ inv' = [inv EXCEPT ![i] = IdleInv]
  /\ UNCHANGED <<props, triggers, drive, outbox, digests, now, tzOffset, ticks, starts, mailbox, messages>>

HostKills == \E i \in Invocations : ExecutionKilled(i)

Next ==
  \/ TickClock
  \/ onHomepageTrigger
  \/ ScanEmails
  \/ checkProcessingStatus
  \/ buildActiveWorkflowCard
  \/ handleEmergencyReset
  \/ DispatcherFires
  \/ OneOffFires
  \/ ChunkWork
  \/ PassiveFetch
  \/ PassiveDigest
  \/ HostKills

Spec == Init /\ [][Next]_vars

(* ---------------- claims on the orchestration ---------------- *)

\* the workflow an executing invocation belongs to
WorkflowOf(i) ==
  CASE inv[i].pc = "step" -> "active"
    [] inv[i].pc \in {"passive", "digest"} -> "passive"
    [] OTHER -> "none"

\* C1: while a workflow that acquired the lock is still executing and the lock
\* is still held, no step replaces the lock by one of another kind, so the
\* kind of the lock matches the workflow that is running.
C1_LockNeverOverwritten ==
  [][(\E i \in Invocations :
        /\ WorkflowOf(i) # "none"
        /\ props.processingLock.type = WorkflowOf(i))
      => props'.processingLock.type \in {props.processingLock.type, "none"}]_vars

\* C2: a start attempted while a passive lock is held is refused with the
\* 'another workflow is already running' card and changes neither the
\* properties (lock, status, chunk keys) nor the installed triggers.
C2_StartRefusedUnderPassiveLock ==
  [][(props.processingLock.type = "passive" /\ ScanEmails)
      => /\ handleScanEmailsCard(props, now) # "progress"
         /\ props' = props
         /\ triggers' = triggers]_vars

\* C3: in every reachable state, processingStatus running implies that
\* processingLock exists with kind active.
C3_RunningImpliesActiveLock ==
  props.processingStatus = "running" => props.processingLock.type = "active"

\* the shared persistent state changes in this step
SharedStateWritten ==
  \/ props'.processingStatus # props.processingStatus
  \/ props'.chunkCurrentStart # props.chunkCurrentStart
  \/ props'.chunkEnd # props.chunkEnd
  \/ props'.chunkIndex # props.chunkIndex
  \/ props'.chunkTotalChunks # props.chunkTotalChunks
  \/ props'.accumulatedResults # props.accumulatedResults
  \/ props'.passiveLastProcessedTimestamp # props.passiveLastProcessedTimestamp
  \/ drive' # drive

\* C4: a step of an engine (a chunk step, a passive pass) that writes shared
\* persistent state is taken while the lock is held.
C4_WritesUnderLock ==
  [][((OneOffFires \/ ChunkWork \/ PassiveFetch \/ PassiveDigest) /\ SharedStateWritten)
      => props.processingLock # NoLock]_vars

\* the entry points that call checkAndHandleTimeout(now) before anything else
CallsCheckAndHandleTimeout ==
  buildActiveWorkflowCard \/ onHomepageTrigger \/ DispatcherFires

C6_DispatcherAfterTerminal ==
  [][(/\ props'.processingStatus \in {"completed", "error", "timeout"}
      /\ props'.processingStatus # props.processingStatus)
      => isDispatcherTriggerInstalled(triggers')]_vars

\* a start that is not refused and in which no step raises
SuccessfulKickoff ==
  /\ ~isProcessingRunning(props, now)
  /\ \E timeRange \in TimeRanges : handleScanEmails(timeRange, "none")

C8_FailedStartCleansUp ==
  [][(/\ ~isProcessingRunning(props, now)
      /\ \E timeRange \in TimeRanges, fail \in StartFailures \ {"none"} :
           handleScanEmails(timeRange, fail))
      => /\ props'.processingLock = NoLock
         /\ props'.processingStatus = "error"
         /\ isDispatcherTriggerInstalled(triggers')
         /\ outbox'.error = outbox.error + 1]_vars

(* ---------------- the digest specification ---------------- *)

\* the passive workflow alone, over two local days, starting at 20:59 local
InitDigest ==
  /\ InitCommon
  /\ mailbox = [t \in ThreadIds |-> PlainThread]
  /\ messages = NoMessages
  /\ tzOffset \in TimeZones
  /\ now = StartOfTime + 20 * HOUR_MS + 59 * MINUTE_MS - tzOffset

NextDigest ==
  \/ TickDigest
  \/ DispatcherFires
  \/ PassiveFetchFindings
  \/ PassiveDigest

SpecDigest == InitDigest /\ [][NextDigest]_vars

(* ---------------- claims on the daily digest ---------------- *)

\* C9: for every local date, at most one digest is delivered on that date,
\* whatever the passive passes do after their send.
C9_OneDigestPerDate ==
  \A i, j \in DOMAIN digests :
    (i < j /\ digests[i].delivered /\ digests[j].delivered)
      => digests[i].date # digests[j].date

\* C10: when the send of the digest raises, passiveLastSummaryDate keeps its
\* value and the accumulator file keeps all of its content.
C10_FailedSendKeepsEverything ==
  [][(PassiveFinish("sendRaises") /\ digestAttempted(props, drive, now, tzOffset))
      => /\ props'.passiveLastSummaryDate = props.passiveLastSummaryDate
         /\ drive' = drive]_vars

\* the last send of a digest raised, inside the window, with findings on file
C10_Witness ==
  /\ digests # <<>>
  /\ ~digests[Len(digests)].delivered
  /\ digests[Len(digests)].date = getCurrentDateString(now, tzOffset)
  /\ isWithinTimeWindow(now, tzOffset)
  /\ HasFindings(drive)
  /\ props.passiveLastSummaryDate # getCurrentDateString(now, tzOffset)
  /\ inv["dispatcher"].pc = "idle"

\* a step in which GmailApp accepts the digest
DigestDelivered ==
  /\ PassiveDigest
  /\ Len(digests') = Len(digests) + 1
  /\ digests'[Len(digests')].delivered

\* C11: after every digest send that succeeds, the accumulator is cleared and
\* passiveLastSummaryDate is today's local date, so that no finding is
\* delivered in two digests.
C11_DeliveredDigestClears ==
  [][DigestDelivered
      => /\ drive' = EmptyAccumulated
         /\ props'.passiveLastSummaryDate = getCurrentDateString(now, tzOffset)]_vars

\* minutes since local midnight
LocalMinutes == ((now + tzOffset) % DAY_MS) \div MINUTE_MS

\* none of the three reasons the specification gives for not sending holds
DigestIsDue ==
  /\ LocalMinutes >= 21 * 60
  /\ LocalMinutes < 24 * 60
  /\ props.passiveLastSummaryDate # (now + tzOffset) \div DAY_MS
  /\ Len(drive.mustDo) + Len(drive.mustKnow) > 0

EmailsOf(t) == {t}

\* the ids collected from results.mustDo and results.mustKnow
interestingEmailIds(results) == results.mustDo \cup results.mustKnow

hasInterestingEmail(t, results) ==
  \E email \in EmailsOf(t) : email \in interestingEmailIds(results)

\* removeUninterestingEmailsFromInbox(emailThreads, results, config): the
\* mailbox when it returns. labelOk is whether GmailApp.getInboxLabel()
\* returns, threadOk the threads for which getThreadById and removeLabel return
removeUninterestingEmailsFromInbox(mb, emailThreads, results, config, labelOk, threadOk) ==
  IF ~config.removeUninterestingFromInbox \/ ~labelOk THEN mb
  ELSE [t \in DOMAIN mb |->
          IF t \in emailThreads /\ ~hasInterestingEmail(t, results) /\ t \in threadOk
            THEN [mb[t] EXCEPT !.inInbox = FALSE]
            ELSE mb[t]]

\* processEmailsInBatches ends with the cleanup of the threads it fetched
RemoveUninteresting ==
  /\ \E emailThreads \in SUBSET ThreadIds, mustDo \in SUBSET ThreadIds,
        mustKnow \in SUBSET ThreadIds, enabled \in BOOLEAN, labelOk \in BOOLEAN,
        threadOk \in SUBSET ThreadIds :
       mailbox' = removeUninterestingEmailsFromInbox(
                    mailbox, emailThreads,
                    [mustDo |-> mustDo, mustKnow |-> mustKnow],
                    [removeUninterestingFromInbox |-> enabled], labelOk, threadOk)
  /\ UNCHANGED <<props, triggers, drive, outbox, digests, now, tzOffset, ticks, starts, inv,
                 messages>>

\* any mailbox whose threads are all in the inbox
InitInbox ==
  /\ InitCommon
  /\ now = StartOfTime
  /\ tzOffset = HOUR_MS
  /\ mailbox \in [ThreadIds -> [inInbox : {TRUE}, starred : BOOLEAN,
                                userLabelled : BOOLEAN, important : BOOLEAN]]
  /\ messages = NoMessages

NextInbox == RemoveUninteresting

SpecInbox == InitInbox /\ [][NextInbox]_vars

(* ---------------- claims on the inbox cleanup ---------------- *)

\* a thread the user marked: starred, labelled, or flagged IMPORTANT
Protected(th) == th.starred \/ th.userLabelled \/ th.important

\* C13: removeUninterestingEmailsFromInbox removes no thread from the inbox
\* that holds a starred message, carries a user label or has the IMPORTANT flag
C13_ProtectedThreadsStay ==
  [][\A t \in ThreadIds :
       (mailbox[t].inInbox /\ Protected(mailbox[t])) => mailbox'[t].inInbox]_vars

(* ---------------- an active run of several chunks ---------------- *)

\* the scan card started with the widest range: 7 days, scanned in chunks of
\* CHUNK_SIZE_MS
ScanWeek == \E fail \in StartFailures : handleScanEmails("7days", fail)

NextWeek ==
  \/ TickClock
  \/ ScanWeek
  \/ DispatcherFires
  \/ OneOffFires
  \/ ChunkWork
  \/ PassiveFetch
  \/ PassiveDigest

SpecWeek == Init /\ [][NextWeek]_vars

(* ---------------- claims on the chunk steps ---------------- *)

IsPrefix(a, b) == Len(a) <= Len(b) /\ SubSeq(b, 1, Len(a)) = a

\* the accumulated results as stored under accumulatedResults
StoredResults(p) ==
  IF p.accumulatedResults = <<>> THEN NoFindings ELSE p.accumulatedResults[1]

\* a chunk step that got its mail and its findings, and so writes chunkIndex
\* and accumulatedResults
StepWrites ==
  \E i \in Invocations, completeOk, errorOk \in BOOLEAN, r \in ChunkFindingSets :
    StepWork(i, TRUE, r, completeOk, errorOk)

\* C14: within one active run every write of a chunk step stores a larger
\* chunkIndex, at most chunkTotalChunks, and accumulated results that keep the
\* stored mustDo and mustKnow lists as a prefix
C14_ChunkStateOnlyAdvances ==
  [][(StepWrites /\ props.chunkIndex # Absent /\ props'.chunkIndex # Absent)
       => /\ props'.chunkIndex > props.chunkIndex
          /\ props'.chunkIndex <= props'.chunkTotalChunks
          /\ IsPrefix(StoredResults(props).mustDo, StoredResults(props').mustDo)
          /\ IsPrefix(StoredResults(props).mustKnow, StoredResults(props').mustKnow)]_vars

\* a trigger that fires enters a chunk step
EntersStep ==
  /\ DispatcherFires \/ OneOffFires
  /\ \E i \in Invocations : inv[i].pc # "step" /\ inv'[i].pc = "step"

\* C15: once the status of an active run is error, no trigger that fires
\* afterwards processes a chunk of it, and nothing but a new start makes the
\* status running or completed
C15_ErrorIsTerminal ==
  [][props.processingStatus = "error"
       => /\ ~EntersStep
          /\ ~ScanEmails => props'.processingStatus \notin {"running", "completed"}]_vars

\* a chunk step whose mail fetch or LLM call raises
StepFails ==
  \E i \in Invocations, completeOk, errorOk \in BOOLEAN, r \in ChunkFindingSets :
    StepWork(i, FALSE, r, completeOk, errorOk)

\* C16: a chunk step in which an error is raised returns with the status
\* error, chunkStartTime absent, no lock held and the dispatcher installed
C16_FailedStepCleansUp ==
  [][StepFails => /\ props'.processingStatus = "error"
                  /\ props'.chunkStartTime = Absent
                  /\ props'.processingLock = NoLock
                  /\ isDispatcherTriggerInstalled(triggers')]_vars

\* the completion, error and timeout mails sent so far
Notifications == outbox.complete + outbox.error + outbox.timeout

\* C17: the active runs cause at most one notification mail each, counted
\* over every invocation that touches them
C17_OneNotificationPerRun == Notifications <= starts

(* ---------------- the dispatcher as the keeper of the lock ---------------- *)

\* handleNukeSettings(): the configuration is deleted, the API key with it;
\* the lock and the processing state stay as they are
handleNukeSettings ==
  /\ props.openaiApiKey
  /\ props' = [props EXCEPT !.openaiApiKey = FALSE]
  /\ UNCHANGED <<triggers, drive, outbox, digests, now, tzOffset, ticks, starts, inv, mailbox, messages>>

\* the hourly dispatcher trigger: an hour and a half passes between two looks
\* at the clock
TickHour == ticks < MaxLiveTicks /\ Tick(90 * MINUTE_MS)

\* the execution of invocation i ends: its handler returns or the host ends it
InvocationEnds(i) ==
  \/ \E fetchOk, completeOk, errorOk \in BOOLEAN, r \in ChunkFindingSets :
       StepWork(i, fetchOk, r, completeOk, errorOk)
  \/ i = "dispatcher" /\ (PassiveFetch \/ PassiveDigest)
  \/ ExecutionKilled(i)

NextLive ==
  \/ TickHour
  \/ ScanEmails
  \/ handleNukeSettings
  \/ DispatcherFires
  \/ OneOffFires
  \/ ChunkWork
  \/ PassiveFetch
  \/ PassiveDigest
  \/ HostKills

\* time passes, installed triggers fire, and no execution outlives the limit
\* of the host
SpecLive ==
  /\ Init
  /\ [][NextLive]_vars
  /\ WF_vars(TickHour)
  /\ WF_vars(DispatcherFires)
  /\ WF_vars(OneOffFires)
  /\ \A i \in Invocations : WF_vars(InvocationEnds(i))

(* ---------------- claims on the release of the lock ---------------- *)

\* a lock is held while nothing executes, no one-off trigger is pending and
\* the user starts no further scan, with the whole time of the clock still ahead
LockLeftBehind ==
  /\ props.processingLock # NoLock
  /\ starts = MaxStarts
  /\ \A i \in Invocations : inv[i].pc = "idle"
  /\ triggers.processEmailsChunkedStep = 0
  /\ isDispatcherTriggerInstalled(triggers)
  /\ ticks = 0

\* C18: while dispatcher ticks keep occurring, a lock that was left behind,
\* active or passive, is eventually released
C18_LeftLockIsReleased == LockLeftBehind ~> (props.processingLock = NoLock)

(* ---------------- claims on the accumulator and the passive cursor ---------------- *)

\* the step leaves the stored lists in place, possibly with more at their end
DriveKeepsContent ==
  /\ IsPrefix(drive.mustDo, drive'.mustDo)
  /\ IsPrefix(drive.mustKnow, drive'.mustKnow)

\* C19: between two delivered digests the accumulator file is append-only:
\* every step keeps the stored mustDo and mustKnow lists as a prefix, except
\* the reset by clearAccumulatedResults after a digest was delivered
C19_AccumulatorAppendOnly ==
  [][DriveKeepsContent \/ (DigestDelivered /\ drive' = EmptyAccumulated)]_vars

\* C20: passiveLastProcessedTimestamp never decreases: every write stores a
\* value greater than or equal to the value it replaces
C20_CursorNeverDecreases ==
  [][props.passiveLastProcessedTimestamp # Absent
       => props'.passiveLastProcessedTimestamp >= props.passiveLastProcessedTimestamp]_vars

\* a pass that started from a stored cursor has written the cursor again
C20_Witness ==
  /\ inv["dispatcher"].pc = "digest"
  /\ inv["dispatcher"].rangeStart > inv["dispatcher"].rangeEnd - PASSIVE_LOOKBACK_MS
  /\ props.passiveLastProcessedTimestamp >= inv["dispatcher"].rangeStart

(* ---------------- the mail a passive pass fetches (EmailProcessor.js) ---------------- *)

MessageIds == 1..MaxMessages

\* the dates of the messages: three in the day before the first pass, one
\* that arrives after it
MessageDates == {StartOfTime - 3 * HOUR_MS, StartOfTime - 2 * HOUR_MS,
                 StartOfTime - HOUR_MS, StartOfTime + 30 * MINUTE_MS}

\* a set of messages as a sequence, oldest first: threadEmails.sort((a, b) =>
\* a.date - b.date)
RECURSIVE OldestFirst(_, _)
OldestFirst(S, msgs) ==
  IF S = {} THEN << >>
  ELSE LET m == CHOOSE x \in S : \A y \in S : msgs[x].date <= msgs[y].date
       IN <<[id |-> m, date |-> msgs[m].date]>> \o OldestFirst(S \ {m}, msgs)

\* the messages of thread t that pass the stop test and the date test
threadEmails(msgs, t, dateRange, stopAtMessageId) ==
  {m \in DOMAIN msgs : /\ msgs[m].thread = t
                       /\ m # stopAtMessageId
                       /\ msgs[m].date >= dateRange.start
                       /\ msgs[m].date <= dateRange.end}

\* the entry pushed on emailThreads for thread t
emailThread(msgs, t, dateRange, stopAtMessageId) ==
  LET emails == OldestFirst(threadEmails(msgs, t, dateRange, stopAtMessageId), msgs)
  IN [threadId |-> t, emails |-> emails, latestDate |-> emails[Len(emails)].date]

\* a set of threads as a sequence, the most recent first:
\* emailThreads.sort((a, b) => b.latestDate - a.latestDate)
RECURSIVE MostRecentFirst(_)
MostRecentFirst(S) ==
  IF S = {} THEN << >>
  ELSE LET th == CHOOSE x \in S : \A y \in S : x.latestDate >= y.latestDate
       IN <<th>> \o MostRecentFirst(S \ {th})

\* fetchEmailThreadsFromGmail(dateRange, stopAtMessageId): the message with
\* the stop id is skipped; neither forEach is left early, as a return from the
\* callback ends only the callback
fetchEmailThreadsFromGmail(msgs, dateRange, stopAtMessageId) ==
  MostRecentFirst(
    {emailThread(msgs, t, dateRange, stopAtMessageId) :
       t \in {x \in ThreadIds : threadEmails(msgs, x, dateRange, stopAtMessageId) # {}}})

\* the ids of the messages in emailThreads, all of which processEmailsInBatches
\* submits for analysis
FetchedIds(emailThreads) ==
  UNION {{emailThreads[i].emails[j].id : j \in DOMAIN emailThreads[i].emails} :
           i \in DOMAIN emailThreads}

\* the mail fetch, the batches and the merge of a passive pass over the
\* messages of the mailbox
FetchPass ==
  \E results \in FindingSets :
    LET l == inv["dispatcher"]
        emailThreads == fetchEmailThreadsFromGmail(
                          messages, [start |-> l.rangeStart, end |-> l.rangeEnd],
                          props.passiveLastProcessedMessageId)
        firstMessage == emailThreads[1].emails[1]
    IN /\ l.pc = "passive"
       /\ IF emailThreads = << >>
            THEN /\ PassiveWork("none", NoFindings, Absent, Absent, "ok")
                 /\ UNCHANGED messages
            ELSE /\ PassiveWork("threads", results, firstMessage.date, firstMessage.id, "ok")
                 /\ messages' = [m \in DOMAIN messages |->
                                   IF m \in FetchedIds(emailThreads)
                                     THEN [messages[m] EXCEPT !.submitted = @ + 1]
                                     ELSE messages[m]]

\* an hour passes between two dispatcher ticks
TickFetch == ticks < MaxFetchTicks /\ Tick(HOUR_MS)

\* any mailbox of messages with distinct dates, none submitted yet
InitFetch ==
  /\ InitCommon
  /\ now = StartOfTime
  /\ tzOffset = HOUR_MS
  /\ mailbox = [t \in ThreadIds |-> PlainThread]
  /\ messages \in {f \in [MessageIds -> [thread : ThreadIds, date : MessageDates,
                                          submitted : {0}]] :
                     \A a, b \in MessageIds : a # b => f[a].date # f[b].date}

NextFetch ==
  \/ TickFetch
  \/ DispatcherFires
  \/ FetchPass
  \/ PassiveDigest

SpecFetch == InitFetch /\ [][NextFetch]_vars

(* ---------------- claims on the passive cursor ---------------- *)

\* the messages the step submits for analysis
SubmittedNow == {m \in MessageIds : messages'[m].submitted > messages[m].submitted}

\* the step writes the cursor
CursorWritten ==
  /\ FetchPass
  /\ SubmittedNow # {}
  /\ inv'["dispatcher"].pc = "digest"
  /\ props'.passiveLastProcessedTimestamp # Absent
  /\ \/ props'.passiveLastProcessedTimestamp # props.passiveLastProcessedTimestamp
     \/ props'.passiveLastProcessedMessageId # props.passiveLastProcessedMessageId

\* C21: a pass that advances the cursor stores the date and the id of the
\* earliest-dated message it processed
C21_CursorIsEarliestProcessed ==
  [][CursorWritten
       => /\ props'.passiveLastProcessedMessageId \in SubmittedNow
          /\ props'.passiveLastProcessedTimestamp =
               messages[props'.passiveLastProcessedMessageId].date
          /\ \A m \in SubmittedNow :
               messages[m].date >= props'.passiveLastProcessedTimestamp]_vars

\* C22: once the cursor exists, no pass submits a message that an earlier
\* pass submitted
C22_NothingProcessedTwice ==
  [][props.passiveLastProcessedMessageId # Absent
       => \A m \in SubmittedNow : messages[m].submitted = 0]_vars

(* ---------------- claims on a missed digest window ---------------- *)

\* a passive pass returns with every call it made having worked: it found no
\* mail in its range, or it went through sendDailySummaryIfNeeded
QuietPassEnds ==
  \/ /\ PassiveWork("none", NoFindings, inv["dispatcher"].rangeEnd, SomeMessage, "ok")
     /\ UNCHANGED messages
  \/ PassiveFinish("ok")

\* the file holds findings accumulated on an earlier local day by passes that
\* began outside the window, the pass at hand began inside the window of today
\* and no digest was sent today
MissedWindowPending ==
  /\ HasFindings(drive)
  /\ inv["dispatcher"].rangeEnd # Absent
  /\ isWithinTimeWindow(inv["dispatcher"].rangeEnd, tzOffset)
  /\ getCurrentDateString(inv["dispatcher"].rangeEnd, tzOffset)
       = getCurrentDateString(now, tzOffset)
  /\ drive.lastDate # Absent
  /\ getCurrentDateString(drive.lastDate, tzOffset) < getCurrentDateString(now, tzOffset)
  /\ ~isWithinTimeWindow(drive.lastDate, tzOffset)
  /\ isWithinTimeWindow(now, tzOffset)
  /\ ~hasSentSummaryToday(props, now, tzOffset)

\* C23: findings kept over a day whose window no pass ran in are sent by the
\* first passive pass inside the window of the next day: that pass delivers
\* one digest, built from everything on file, and clears the file
C23_MissedWindowSendsNextDay ==
  [][(MissedWindowPending /\ QuietPassEnds)
       => /\ Len(digests') = Len(digests) + 1
          /\ digests'[Len(digests')].delivered
          /\ digests'[Len(digests')].date = getCurrentDateString(now, tzOffset)
          /\ drive' = EmptyAccumulated]_vars

(* ---------------- claims on a run of several chunks ---------------- *)

\* a 7-day scan is started
WeekStarted ==
  /\ ~isProcessingRunning(props, now)
  /\ handleScanEmails("7days", "none")

\* invocation i finishes a chunk step in which nothing raises, on the chunk
\* state it read at its start
CleanStep(i) ==
  /\ props.processingStatus = "running"
  /\ inv[i].chunkIndex = props.chunkIndex
  /\ inv[i].totalChunks = props.chunkTotalChunks
  /\ \E r \in ChunkFindingSets : StepWork(i, TRUE, r, TRUE, TRUE)

\* C24: a 7-day scan is cut into 4 chunks of 2 days, and four chunk steps
\* without error or timeout finish it: each of the first three moves chunkIndex
\* up by one, from 0 to 3, and the fourth ends the run as completed
C24_FourStepsFinishAWeek ==
  [][/\ WeekStarted => /\ props'.chunkTotalChunks = 4
                       /\ props'.chunkIndex = 0
                       /\ props'.chunkEnd - props'.chunkCurrentStart = 7 * DAY_MS
     /\ \A i \in Invocations :
          CleanStep(i) =>
            IF props.chunkIndex < 3
              THEN /\ props'.chunkIndex = props.chunkIndex + 1
                   /\ props'.processingStatus = "running"
              ELSE /\ inv[i].chunkIndex + 1 = 4
                   /\ props'.processingStatus = "completed"
                   /\ props'.chunkIndex = Absent]_vars

\* the fourth step has finished the run and sent the completion mail
C24_Witness ==
  /\ props.processingStatus = "completed"
  /\ starts = 1
  /\ outbox = [complete |-> 1, error |-> 0, timeout |-> 0, passiveError |-> 0]
  /\ \A i \in Invocations : inv[i].pc = "idle"

\* the chunk cursor of an active run lies inside the run's window
ChunkStateInRange(p) ==
  (/\ p.processingStatus = "running"
   /\ p.chunkIndex # Absent
   /\ p.chunkTotalChunks # Absent
   /\ p.chunkCurrentStart # Absent
   /\ p.chunkEnd # Absent)
  => /\ p.chunkIndex <= p.chunkTotalChunks
     /\ p.chunkCurrentStart <= p.chunkCurrentStart + p.chunkIndex * CHUNK_SIZE_MS
     /\ p.chunkCurrentStart + p.chunkIndex * CHUNK_SIZE_MS <= p.chunkEnd

ChunkStateWritable(p) ==
  (/\ p.processingStatus = "running"
   /\ p.chunkIndex # Absent
   /\ p.chunkTotalChunks # Absent
   /\ p.chunkCurrentStart # Absent
   /\ p.chunkEnd # Absent)
  => /\ p.chunkIndex <= p.chunkTotalChunks
     /\ p.chunkCurrentStart + (p.chunkIndex - 1) * CHUNK_SIZE_MS < p.chunkEnd

ChunkStepExecuting == \E i \in Invocations : inv[i].pc = "step"

\* C26: chunkStartTime is present exactly when an active chunk step is
\* executing: absent whenever none executes, present throughout each one
C26_ChunkStartTimeIffExecuting ==
  (props.chunkStartTime # Absent) <=> ChunkStepExecuting

\* C26, a weaker reading that also counts a passive pass as a chunk: violated
\* all the same, by a step the host ended and by a step that outlives another
ChunkStartTimeIffAnyExecuting ==
  (props.chunkStartTime # Absent) <=> (\E i \in Invocations : inv[i].pc # "idle")

TerminalStatuses == {"completed", "error", "timeout"}

\* C27: expectedChunkStartTime is present only while a chunk is scheduled and
\* has not started: markChunkStarting clears it, so it is absent while a chunk
\* step executes and after the run has reached a terminal status
C27_ExpectedStartOnlyWhileScheduled ==
  /\ markChunkStarting(props, now).expectedChunkStartTime = Absent
  /\ ChunkStepExecuting => props.expectedChunkStartTime = Absent
  /\ props.processingStatus \in TerminalStatuses => props.expectedChunkStartTime = Absent

\* C27, its two consequences alone, each violated
ExpectedStartAbsentWhileExecuting ==
  ChunkStepExecuting => props.expectedChunkStartTime = Absent

ExpectedStartAbsentWhenTerminal ==
  props.processingStatus \in TerminalStatuses => props.expectedChunkStartTime = Absent

(* ---------------- claims on the triggers ---------------- *)

\* no active run is in progress and no invocation is executing
AtRest ==
  /\ props.processingStatus # "running"
  /\ \A i \in Invocations : inv[i].pc = "idle"

\* C28: whenever no active run is in progress and no invocation is executing,
\* exactly one runDispatcher trigger is installed, and opening the homepage
\* leaves exactly one, whether or not one existed
C28_OneDispatcherAtRest ==
  /\ [](AtRest => triggers.runDispatcher = 1)
  /\ [][onHomepageTrigger => triggers'.runDispatcher = 1]_vars

\* nothing runs, nothing holds the lock, no chunk step is pending
IdleState ==
  /\ props.processingStatus # "running"
  /\ props.processingLock = NoLock
  /\ triggers.processEmailsChunkedStep = 0
  /\ \A i \in Invocations : inv[i].pc = "idle"

ExpectedStartFor(d) == now + d + ((3 * d) \div 10) + 10 * MINUTE_MS

\* a start that schedules the first chunk
KickoffSchedules ==
  /\ ~isProcessingRunning(props, now)
  /\ \E timeRange \in TimeRanges \cup {"7days"} : handleScanEmails(timeRange, "none")

\* invocation i ends a chunk step that leaves the next chunk to the dispatcher
StepSchedulesNext(i) ==
  /\ inv[i].overallStart + (inv[i].chunkIndex + 1) * CHUNK_SIZE_MS < inv[i].overallEnd
  /\ inv[i].chunkIndex + 1 < inv[i].totalChunks
  /\ \E r \in ChunkFindingSets, completeOk, errorOk \in BOOLEAN :
       StepWork(i, TRUE, r, completeOk, errorOk)

\* the expected start stored between two chunks
ExpectedStartBetweenChunks ==
  [][\A i \in Invocations :
       StepSchedulesNext(i)
         => props'.expectedChunkStartTime = ExpectedStartFor(DISPATCHER_INTERVAL_MS)]_vars

\* C30: each time a chunk is scheduled with trigger delay d (60 s at kickoff,
\* 1 h between chunks), expectedChunkStartTime is set to now + d + 0.3 * d + 10 min
C30_ExpectedStartIncludesDelay ==
  [][/\ KickoffSchedules
          => props'.expectedChunkStartTime = ExpectedStartFor(KICKOFF_DELAY_MS)
     /\ \A i \in Invocations :
          StepSchedulesNext(i)
            => props'.expectedChunkStartTime = ExpectedStartFor(DISPATCHER_INTERVAL_MS)]_vars

(* ---------------- claims on the end of a run ---------------- *)

\* this step finalizes a run as completed
BecomesCompleted ==
  /\ props.processingStatus # "completed"
  /\ props'.processingStatus = "completed"

\* the state finalizeChunkedProcessing leaves: chunk state cleared, lock
\* released, dispatcher installed
FinalizedCleanly ==
  /\ props'.chunkIndex = Absent
  /\ props'.chunkTotalChunks = Absent
  /\ props'.chunkCurrentStart = Absent
  /\ props'.chunkEnd = Absent
  /\ props'.chunkStartTime = Absent
  /\ props'.accumulatedResults = <<>>
  /\ props'.processingLock = NoLock
  /\ triggers'.runDispatcher = 1

CompletionMailed == outbox'.complete = outbox.complete + 1

StoredAccumulated ==
  IF props.accumulatedResults = <<>> THEN NoFindings ELSE props.accumulatedResults[1]

RunsPassive ==
  /\ ~TimeoutDue(props, now)
  /\ props.processingStatus # "running"
  /\ props.openaiApiKey
  /\ \/ props.passiveLastRunIso = Absent
     \/ now - props.passiveLastRunIso >= PASSIVE_INTERVAL_MS
  /\ DispatcherFires

\* any step of a passive pass
PassivePassStep == RunsPassive \/ PassiveFetch \/ PassiveDigest

\* the keys of the active workflow
ActiveKeys(p) ==
  <<p.processingStatus, p.chunkStartTime, p.chunkIndex, p.chunkTotalChunks,
    p.chunkCurrentStart, p.chunkEnd>>

\* C32: a passive pass never writes or deletes processingStatus or a chunk key
\* (chunkStartTime, chunkIndex, chunkTotalChunks, chunkCurrentStart, chunkEnd)
C32_PassiveLeavesActiveKeys ==
  [][PassivePassStep => ActiveKeys(props') = ActiveKeys(props)]_vars

\* C32, read end to end: a pass that begins while chunkStartTime is present
\* cannot return with the value it found, since its finally block deletes the
\* key; so no pass may begin then
PassiveBeginsUnmarked ==
  [][RunsPassive => props.chunkStartTime = Absent]_vars

(* ---------------- claims on a missing API key ---------------- *)

\* C33: with no API key configured, a start asked for by the user is refused
\* with an error card: no lock is taken, processingStatus does not become
\* running, and no trigger is deleted or created
C33_NoKeyNoStart ==
  [][(~props.openaiApiKey /\ ScanEmails)
       => /\ handleScanEmailsCard(props, now) # "progress"
          /\ props'.processingLock = props.processingLock
          /\ props'.processingStatus # "running"
          /\ triggers' = triggers]_vars

(* ---------------- the ignore rules of the mail fetch ---------------- *)

MaxMails == 2

\* strings are sequences of letters; a capital letter and its small letter
\* are different characters
Letters == {"u", "U", "o", "n", "g", "G", "f", "F", "r"}

\* String.prototype.toLowerCase, letter by letter
LowerLetter(c) ==
  CASE c = "U" -> "u"
    [] c = "G" -> "g"
    [] c = "F" -> "f"
    [] OTHER -> c

toLowerCase(str) == [i \in DOMAIN str |-> LowerLetter(str[i])]

\* String.prototype.includes
includes(str, sub) ==
  \E i \in 0..(Len(str) - Len(sub)) : SubSeq(str, i + 1, i + Len(sub)) = sub

\* null, as getUserEmailAddress() returns it when the session gives no address
Null == << >>

\* the address of the account
UserAddress == <<"u">>

\* config.addonName as configured
AddonName == <<"G", "f">>

\* the From header of a message, by who wrote it: the plain address, the
\* address in capitals, the address after a display name
Senders(author) ==
  IF author = "user" THEN {<<"u">>, <<"U">>, <<"n", "u">>} ELSE {<<"o">>, <<"n", "o">>}

\* subjects with and without the addon name, in several spellings
Subjects == {<<"g", "f">>, <<"G", "F">>, <<"r", "G", "f">>, <<"r">>, <<"g", "r", "f">>}

\* every message a mailbox can hold, none submitted yet
NewMails ==
  UNION {[author : {a}, sender : Senders(a), subject : Subjects, submitted : {FALSE}] :
           a \in {"user", "other"}}

\* shouldIgnoreEmail(email, userEmail, addonName)
shouldIgnoreEmail(email, userEmail, addonName) ==
  \/ /\ userEmail # Null
     /\ email.sender # Null
     /\ includes(toLowerCase(email.sender), toLowerCase(userEmail))
  \/ /\ addonName # Null
     /\ includes(toLowerCase(email.subject), toLowerCase(addonName))

\* fetchEmailThreadsFromGmail: the messages pushed on threadEmails go to the
\* batches; userEmail is what getUserEmailAddress() returned for this fetch
FetchFiltered(userEmail) ==
  /\ \E i \in DOMAIN messages : ~messages[i].submitted
  /\ messages' = [i \in DOMAIN messages |->
                    IF shouldIgnoreEmail(messages[i], userEmail, AddonName)
                      THEN messages[i]
                      ELSE [messages[i] EXCEPT !.submitted = TRUE]]
  /\ UNCHANGED <<props, triggers, drive, outbox, digests, now, tzOffset, ticks, starts, inv, mailbox>>

FetchWithAddress == FetchFiltered(UserAddress)

FetchWithoutAddress == FetchFiltered(Null)

InitIgnore ==
  /\ InitCommon
  /\ now = StartOfTime
  /\ tzOffset = HOUR_MS
  /\ mailbox = [t \in ThreadIds |-> PlainThread]
  /\ messages \in [1..MaxMails -> NewMails]

NextIgnore == FetchWithAddress \/ FetchWithoutAddress

SpecIgnore == InitIgnore /\ [][NextIgnore]_vars

\* the subject holds the addon name, whatever the case of its letters
NamesAddon(email) == includes(toLowerCase(email.subject), toLowerCase(AddonName))

\* C34: no message written by the user, and no message whose subject contains
\* the configured addon name (compared without regard to case), is ever in a
\* batch submitted to the LLM
C34_IgnoredNeverSubmitted ==
  \A i \in DOMAIN messages :
    messages[i].submitted => (messages[i].author # "user" /\ ~NamesAddon(messages[i]))

\* C34, the half on the addon name, and the whole of it while the session
\* gives the address of the account
AddonMailNeverSubmitted ==
  \A i \in DOMAIN messages : messages[i].submitted => ~NamesAddon(messages[i])

UserMailSubmittedOnlyWithoutAddress ==
  [][FetchWithAddress =>
       \A i \in DOMAIN messages :
         (messages'[i].submitted /\ ~messages[i].submitted)
           => messages[i].author # "user"]_vars

(* ---------------- claims on overlapping invocations ---------------- *)

\* the invocations inside a chunk step
StepsExecuting == {i \in Invocations : inv[i].pc = "step"}

\* C35: no two chunk steps of one active run execute at the same time, so no
\* chunk index is fetched and processed twice: a dispatcher tick that fires
\* while a chunk step is executing does not start a second step
C35_OneStepAtATime ==
  /\ [](Cardinality(StepsExecuting) <= 1)
  /\ [][(StepsExecuting # {} /\ DispatcherFires)
          => inv'["dispatcher"].pc # "step"]_vars

\* two steps at work on the same chunk of the same run
SameChunkTwice ==
  /\ inv["dispatcher"].pc = "step"
  /\ inv["oneoff"].pc = "step"
  /\ inv["dispatcher"].chunkIndex = inv["oneoff"].chunkIndex
  /\ inv["dispatcher"].overallStart = inv["oneoff"].overallStart

\* C35, the chunk index alone: violated as well
NoChunkFetchedTwice == ~SameChunkTwice

\* C36: runPassiveWorkflow never releases a lock it did not acquire: when it
\* finds the lock held on entry and skips, processingLock has the same kind
\* and timestamp when it returns
C36_SkipKeepsForeignLock ==
  [][(RunsPassive /\ checkLockLocked(props))
       => props'.processingLock = props.processingLock]_vars

(* ---------------- claims on a run that timed out ---------------- *)

\* C37: once a run has been moved to timeout, and no new run is started, its
\* status never becomes completed or error and no completion or error mail is
\* sent for it, even if the hung chunk step resumes or a pending one-off
\* trigger fires afterwards
C37_TimeoutIsFinal ==
  [][(props.processingStatus = "timeout" /\ starts' = starts)
       => /\ props'.processingStatus \notin {"completed", "error"}
          /\ outbox'.complete = outbox.complete
          /\ outbox'.error = outbox.error]_vars

(* ---------------- a kickoff whose one-off trigger never fires ---------------- *)

\* the host never fires the one-off trigger of the kickoff; the user does
\* nothing but start the scan
NextStalled ==
  \/ TickHour
  \/ ScanEmails
  \/ DispatcherFires
  \/ PassiveFetch
  \/ PassiveDigest
  \/ HostKills

\* time passes, the dispatcher fires whenever it is installed, and a passive
\* pass that began comes to its end
SpecStalled ==
  /\ Init
  /\ [][NextStalled]_vars
  /\ WF_vars(TickHour)
  /\ WF_vars(DispatcherFires)
  /\ WF_vars(PassiveFetch)
  /\ WF_vars(PassiveDigest)

\* C38: every started active run eventually reaches a terminal status
\* (completed, error or timeout) without any action of the user, even if the
\* one-off trigger of the kickoff never fires
C38_StartedRunEnds ==
  (props.processingStatus = "running") ~> (props.processingStatus \in TerminalStatuses)

\* C38, its second sentence: while a run is running, a trigger that the host
\* fires by itself on schedule, the hourly dispatcher, is installed
DispatcherWatchesRun ==
  props.processingStatus = "running" => isDispatcherTriggerInstalled(triggers)

(* ---------------- claims on the digest of a pass without mail ---------------- *)

\* a passive pass whose mail fetch returned no threads comes to its end
PassEndsWithoutThreads ==
  /\ PassiveWork("none", NoFindings, inv["dispatcher"].rangeEnd, SomeMessage, "ok")
  /\ UNCHANGED messages

\* a passive pass whose fetch returned threads comes to its end, the file of
\* accumulated results being readable
PassEndsWithThreads ==
  \E outcome \in DigestOutcomes \ {"loadFails"} : PassiveFinish(outcome)

\* C39: every passive pass that runs inside the digest window, on a day with
\* no digest sent yet and with a non-empty accumulator, attempts the digest
\* send, a pass whose mail fetch returns no threads included
C39_EveryPassInWindowAttempts ==
  [][(digestAttempted(props, drive, now, tzOffset)
        /\ (PassEndsWithoutThreads \/ PassEndsWithThreads))
       => Len(digests') = Len(digests) + 1]_vars

\* C39 without the pass that fetched nothing: holds
PassWithThreadsAttempts ==
  [][(digestAttempted(props, drive, now, tzOffset) /\ PassEndsWithThreads)
       => Len(digests') = Len(digests) + 1]_vars

(* ---------------- the windows of consecutive passive passes ---------------- *)

\* dates of messages shortly before and shortly after the first hourly tick
GapDates ==
  {StartOfTime - 2 * HOUR_MS, StartOfTime - 10 * MINUTE_MS,
   StartOfTime + 10 * MINUTE_MS, StartOfTime + 40 * MINUTE_MS}

\* any mailbox of messages with distinct dates around the first tick; a message
\* dated after now has not arrived yet
InitGap ==
  /\ InitCommon
  /\ now = StartOfTime
  /\ tzOffset = HOUR_MS
  /\ mailbox = [t \in ThreadIds |-> PlainThread]
  /\ messages \in {f \in [MessageIds -> [thread : ThreadIds, date : GapDates,
                                          submitted : {0}]] :
                     \A a, b \in MessageIds : a # b => f[a].date # f[b].date}

SpecGap == InitGap /\ [][NextFetch]_vars

\* C40: with the dispatcher firing every hour, every message dated after the
\* first passive pass lies inside the fetch window of at least one pass: a
\* pass leaves behind no message that arrived before it, is dated after the
\* stored cursor and was never fetched
C40_NoMessageBetweenWindows ==
  [][FetchPass =>
       \A m \in MessageIds :
         (/\ props.passiveLastProcessedTimestamp # Absent
          /\ messages[m].date > props.passiveLastProcessedTimestamp
          /\ messages[m].date <= inv["dispatcher"].rangeEnd)
           => messages'[m].submitted > 0]_vars

====
